---- MODULE Spec2Model ----
(***************************************************************************)
(* Mapped strings of quarto-cli (src/core/lib/mapped-text.ts) and the line *)
(* offset index (src/core/lib/text.ts).                                    *)
(*                                                                         *)
(* A text is a sequence of one-character strings.  Offsets are zero-based  *)
(* as in the source; the sequences of TLA+ are one-based, so the character *)
(* at offset o of a text t is t[o + 1].                                    *)
(*                                                                         *)
(* A MappedString is an object holding two closures.  It is modelled by a  *)
(* record holding value and originalString plus what its closures capture: *)
(*   kind "base"    : offsetInfo                     (lines 63-162)        *)
(*   kind "compose" : previous (the source), next    (lines 163-199)       *)
(*   kind "id"      : nothing                        (lines 202-210)       *)
(*   kind "concat"  : strings, offsets               (lines 214-244)       *)
(* and map / mapClosest apply the closure of the record they are given.    *)
(*                                                                         *)
(* The result of a call is a record: Num(n) for a number, Undefined for    *)
(* JavaScript's undefined, TypeError for a call that throws because it     *)
(* reads a property of undefined.                                          *)
(*                                                                         *)
(* The live-reload watcher of src/command/serve/watch.ts (watchProject,    *)
(* lines 100-169) has a state of its own: the clients array, the timer of  *)
(* the debounced reloadClients, the runs of reloadClients suspended at     *)
(* their await, and the loop of watchForChanges.  The text of the reload   *)
(* message (built from modified) is left out: no step reads it.            *)
(***************************************************************************)
EXTENDS Integers, Sequences, FiniteSets, TLC

VARIABLES root, pool, last

VARIABLES clients, timer, runs, watcher, sent, closed, accepted

watchVars == <<clients, timer, runs, watcher, sent, closed, accepted>>

vars == <<root, pool, last, clients, timer, runs, watcher, sent, closed,
          accepted>>

(***************************************************************************)
(* Bounds of the model.                                                    *)
(***************************************************************************)
MaxPieces == 3

MaxChainPieces == 2

MaxCost == 6

MaxQueryCost == 5

MaxConcat == 2

MaxTextLen == 4

MaxSockets == 3

MaxRuns == 3

(***************************************************************************)
(* Results of calls.                                                       *)
(***************************************************************************)
Num(n) == [k |-> "num", n |-> n]

Undefined == [k |-> "undefined", n |-> 0]

TypeError == [k |-> "TypeError", n |-> 0]

Thrown(message) == [kind |-> "Error", message |-> message]

IsNum(r) == r.k = "num"

(***************************************************************************)
(* Sequences of length at most n over S.                                   *)
(***************************************************************************)
SeqsUpTo(S, n) == UNION {[1..k -> S] : k \in 0..n}

SetMax(S) == CHOOSE m \in S : \A x \in S : x <= m

Min2(a, b) == IF a <= b THEN a ELSE b

Max2(a, b) == IF a >= b THEN a ELSE b

RECURSIVE join(_)
join(list) == IF list = <<>> THEN <<>> ELSE Head(list) \o join(Tail(list))

(***************************************************************************)
(* glb(array, value, compare): the index (zero-based) of the rightmost     *)
(* element whose key is <= the query, -1 when the query precedes every     *)
(* key.  keys is the array seen through the comparator's key.              *)
(***************************************************************************)
glb(keys, query) ==
  SetMax({-1} \cup {i - 1 : i \in {j \in 1..Len(keys) : keys[j] <= query}})

(***************************************************************************)
(* String.prototype.substring: both arguments are clamped to [0, length]   *)
(* and swapped when start > end.                                           *)
(***************************************************************************)
substring(s, start, end) ==
  LET a == Max2(0, Min2(start, Len(s)))
      b == Max2(0, Min2(end, Len(s)))
  IN  SubSeq(s, Min2(a, b) + 1, Max2(a, b))

(***************************************************************************)
(* Pieces: a literal string or a Range {start, end}.                       *)
(***************************************************************************)
Lit(t) == [kind |-> "string", text |-> t]

Range(s, e) == [kind |-> "range", start |-> s, end |-> e]

(***************************************************************************)
(* mappedString, base case: the pieces.map callback, which pushes one      *)
(* OffsetInfo per piece and advances offset.                               *)
(***************************************************************************)
resultPieceOf(source, piece) ==
  IF piece.kind = "string" THEN piece.text
  ELSE substring(source, piece.start, piece.end)

offsetInfoOf(source, piece, offset) ==
  IF piece.kind = "string"
  THEN [fromSource |-> FALSE, length |-> Len(piece.text), offset |-> offset]
  ELSE [fromSource |-> TRUE,
        length |-> Len(substring(source, piece.start, piece.end)),
        offset |-> offset,
        range |-> [start |-> piece.start, end |-> piece.end]]

RECURSIVE offsetInfoFrom(_, _, _, _)
offsetInfoFrom(source, pieces, i, offset) ==
  IF i > Len(pieces) THEN <<>>
  ELSE <<offsetInfoOf(source, pieces[i], offset)>>
       \o offsetInfoFrom(source, pieces, i + 1,
                         offset + Len(resultPieceOf(source, pieces[i])))

resultList(source, pieces) ==
  [i \in 1..Len(pieces) |-> resultPieceOf(source, pieces[i])]

mappedStringBase(source, pieces) ==
  [kind |-> "base",
   value |-> join(resultList(source, pieces)),
   originalString |-> source,
   offsetInfo |-> offsetInfoFrom(source, pieces, 1, 0)]

offsetKeys(offsetInfo) == [i \in 1..Len(offsetInfo) |-> offsetInfo[i].offset]

(***************************************************************************)
(* A map whose bound check is off by one: the offset just past a segment   *)
(* from the source is taken to lie in it.                                  *)
(***************************************************************************)
baseMapPastEnd(offsetInfo, targetOffset) ==
  LET ix == glb(offsetKeys(offsetInfo), targetOffset)
  IN  IF ix < 0 THEN Undefined
      ELSE LET info == offsetInfo[ix + 1]
               localOffset == targetOffset - info.offset
           IN  IF ~info.fromSource THEN Undefined
               ELSE IF localOffset > info.length THEN Undefined
               ELSE Num(info.range.start + localOffset)

(***************************************************************************)
(* map of the base case.                                                   *)
(***************************************************************************)
baseMap(offsetInfo, targetOffset) ==
  LET ix == glb(offsetKeys(offsetInfo), targetOffset)
  IN  IF ix < 0 THEN Undefined
      ELSE LET info == offsetInfo[ix + 1]
               localOffset == targetOffset - info.offset
           IN  IF ~info.fromSource THEN Undefined
               ELSE IF localOffset >= info.length THEN Undefined
               ELSE Num(info.range.start + localOffset)

(***************************************************************************)
(* A scan that answers with the first offset of the segment it finds, not  *)
(* with its last one.                                                      *)
(***************************************************************************)
RECURSIVE closestScanStart(_, _, _, _)
closestScanStart(offsetInfo, targetOffset, firstIx, ix) ==
  IF ix < 0 THEN Undefined
  ELSE LET info == offsetInfo[ix + 1]
       IN  IF ~info.fromSource
           THEN closestScanStart(offsetInfo, targetOffset, firstIx, ix - 1)
           ELSE IF ix = firstIx /\ targetOffset - info.offset < info.length
                THEN Num(info.range.start + (targetOffset - info.offset))
                ELSE Num(info.range.start)

(***************************************************************************)
(* A scan without the exact answer for the anchor segment.                 *)
(***************************************************************************)
RECURSIVE closestScanNoExact(_, _, _, _)
closestScanNoExact(offsetInfo, targetOffset, firstIx, ix) ==
  IF ix < 0 THEN Undefined
  ELSE LET info == offsetInfo[ix + 1]
       IN  IF ~info.fromSource
           THEN closestScanNoExact(offsetInfo, targetOffset, firstIx, ix - 1)
           ELSE Num(info.range.end - 1)

(***************************************************************************)
(* mapClosest of the base case: the while loop walks ix down from firstIx  *)
(* over the segments that are not from the source.                         *)
(***************************************************************************)
RECURSIVE closestScan(_, _, _, _)
closestScan(offsetInfo, targetOffset, firstIx, ix) ==
  IF ix < 0 THEN Undefined
  ELSE LET info == offsetInfo[ix + 1]
       IN  IF ~info.fromSource
           THEN closestScan(offsetInfo, targetOffset, firstIx, ix - 1)
           ELSE IF ix = firstIx /\ targetOffset - info.offset < info.length
                THEN Num(info.range.start + (targetOffset - info.offset))
                ELSE Num(info.range.end - 1)

baseMapClosest(offsetInfo, targetOffset) ==
  IF Len(offsetInfo) = 0 \/ targetOffset < 0 THEN Undefined
  ELSE LET firstIx == glb(offsetKeys(offsetInfo), targetOffset)
       IN  closestScan(offsetInfo, targetOffset, firstIx, firstIx)

(***************************************************************************)
(* The closures map and mapClosest of a MappedString.                      *)
(***************************************************************************)
RECURSIVE map(_, _)
RECURSIVE mapClosest(_, _)

(***************************************************************************)
(* mappedString, recursive case: previous is the source and next is        *)
(* mappedString(value, pieces), built over the source's value.             *)
(***************************************************************************)
(***************************************************************************)
(* A composed map that stops at the source's value instead of walking the  *)
(* source's own map.                                                       *)
(***************************************************************************)
composeMapOneHop(ms, offset) == map(ms.next, offset)

composeMap(ms, offset) ==
  LET v == map(ms.next, offset)
  IN  IF ~IsNum(v) THEN v ELSE map(ms.previous, v.n)

composeMapClosest(ms, offset) ==
  LET v == mapClosest(ms.next, offset)
  IN  IF ~IsNum(v) THEN v ELSE mapClosest(ms.previous, v.n)

(***************************************************************************)
(* A composition that keeps the intermediate text as originalString.       *)
(***************************************************************************)
mappedStringRecOverValue(source, pieces) ==
  LET next == mappedStringBase(source.value, pieces)
  IN  [kind |-> "compose",
       value |-> next.value,
       originalString |-> source.value,
       previous |-> source,
       next |-> next]

mappedStringRec(source, pieces) ==
  LET next == mappedStringBase(source.value, pieces)
  IN  [kind |-> "compose",
       value |-> next.value,
       originalString |-> source.originalString,
       previous |-> source,
       next |-> next]

asMappedString(str) ==
  [kind |-> "id", value |-> str, originalString |-> str]

(***************************************************************************)
(* mappedConcat: offsets holds the running sum of the lengths after each   *)
(* element.  strings[ix] with ix = -1 is undefined, and reading its map    *)
(* throws a TypeError.                                                     *)
(***************************************************************************)
RECURSIVE concatOffsets(_, _, _)
concatOffsets(strings, i, currentOffset) ==
  IF i > Len(strings) THEN <<>>
  ELSE <<currentOffset + Len(strings[i].value)>>
       \o concatOffsets(strings, i + 1, currentOffset + Len(strings[i].value))

concatMap(ms, offset) ==
  IF offset < 0 \/ offset >= Len(ms.value) THEN Undefined
  ELSE LET ix == glb(ms.offsets, offset)
       IN  IF ix < 0 THEN TypeError
           ELSE map(ms.strings[ix + 1], offset - ms.offsets[ix + 1])

concatMapClosest(ms, offset) ==
  IF offset < 0 \/ offset >= Len(ms.value) THEN Undefined
  ELSE LET ix == glb(ms.offsets, offset)
       IN  IF ix < 0 THEN TypeError
           ELSE mapClosest(ms.strings[ix + 1], offset - ms.offsets[ix + 1])

(***************************************************************************)
(* A mappedConcat that makes an empty MappedString out of an empty list.   *)
(***************************************************************************)
mappedConcatOfNothing(strings) ==
  [kind |-> "concat",
   value |-> join([i \in 1..Len(strings) |-> strings[i].value]),
   originalString |-> IF Len(strings) = 0 THEN <<>>
                      ELSE strings[1].originalString,
   strings |-> strings,
   offsets |-> concatOffsets(strings, 1, 0)]

mappedConcat(strings) ==
  IF Len(strings) = 0 THEN Thrown("strings must be non-empty")
  ELSE [kind |-> "concat",
        value |-> join([i \in 1..Len(strings) |-> strings[i].value]),
        originalString |-> strings[1].originalString,
        strings |-> strings,
        offsets |-> concatOffsets(strings, 1, 0)]

map(ms, offset) ==
  CASE ms.kind = "base" -> baseMap(ms.offsetInfo, offset)
    [] ms.kind = "compose" -> composeMap(ms, offset)
    [] ms.kind = "id" -> Num(offset)
    [] ms.kind = "concat" -> concatMap(ms, offset)

mapClosest(ms, offset) ==
  CASE ms.kind = "base" -> baseMapClosest(ms.offsetInfo, offset)
    [] ms.kind = "compose" -> composeMapClosest(ms, offset)
    [] ms.kind = "id" -> Num(offset)
    [] ms.kind = "concat" -> concatMapClosest(ms, offset)

(***************************************************************************)
(* lineNumbers: text.matchAll(/\r?\n/g) scans left to right; every match   *)
(* pushes the offset that follows it, and text.length is pushed last.      *)
(***************************************************************************)
RECURSIVE matchAllNewlines(_, _)
matchAllNewlines(text, i) ==
  IF i >= Len(text) THEN <<>>
  ELSE IF text[i + 1] = "\r" /\ i + 1 < Len(text) /\ text[i + 2] = "\n"
       THEN <<[index |-> i, length |-> 2]>> \o matchAllNewlines(text, i + 2)
  ELSE IF text[i + 1] = "\n"
       THEN <<[index |-> i, length |-> 1]>> \o matchAllNewlines(text, i + 1)
  ELSE matchAllNewlines(text, i + 1)

lineOffsets(text) ==
  LET ms == matchAllNewlines(text, 0)
  IN  <<0>> \o [i \in 1..Len(ms) |-> ms[i].length + ms[i].index]
      \o <<Len(text)>>

NaN == [k |-> "NaN", n |-> 0]

(***************************************************************************)
(* The function lineNumbers(text) returns, applied to offset.  With        *)
(* startIndex = -1 the table entry is undefined and the column is NaN.     *)
(***************************************************************************)
lineNumbers(text, offset) ==
  LET table == lineOffsets(text)
      startIndex == glb(table, offset)
  IN  [line |-> startIndex,
       column |-> IF startIndex < 0 THEN NaN
                  ELSE Num(offset - table[startIndex + 1])]

(***************************************************************************)
(* A mappedLineNumbers that resolves the offset with map, not mapClosest.  *)
(***************************************************************************)
mappedLineNumbersExact(text, offset) ==
  LET n == map(text, offset)
  IN  IF n = Undefined
      THEN Thrown("Internal Error: bad offset in mappedLineNumbers")
      ELSE IF n = TypeError THEN Thrown("TypeError")
      ELSE lineNumbers(text.originalString, n.n)

(***************************************************************************)
(* The function mappedLineNumbers(text) returns, applied to offset.        *)
(***************************************************************************)
mappedLineNumbers(text, offset) ==
  LET n == mapClosest(text, offset)
  IN  IF n = Undefined
      THEN Thrown("Internal Error: bad offset in mappedLineNumbers")
      ELSE IF n = TypeError THEN Thrown("TypeError")
      ELSE lineNumbers(text.originalString, n.n)

(***************************************************************************)
(* Inputs.                                                                 *)
(***************************************************************************)
Abcdef == <<"a", "b", "c", "d", "e", "f">>

HelloWorld == <<"h", "e", "l", "l", "o", " ", "w", "o", "r", "l", "d">>

PrefixLiteral ==
  <<"p", "r", "e", "f", "i", "x", "-", "l", "i", "t", "e", "r", "a", "l">>

SuffixLiteral ==
  <<"s", "u", "f", "f", "i", "x", "-", "l", "i", "t", "e", "r", "a", "l">>

DashXDash == <<"-", "X", "-">>

AbcdefPieces == <<Range(2, 5), Lit(DashXDash), Range(0, 2)>>

HelloPieces == <<Lit(PrefixLiteral), Range(0, 5), Lit(SuffixLiteral)>>

Literals == {<<>>, <<"x">>}

ValidRanges(n) == UNION {{Range(s, e) : e \in s..n} : s \in 0..n}

PiecesOver(n) == ValidRanges(n) \cup {Lit(t) : t \in Literals}

ChainPiecesOver(n) == ValidRanges(n) \cup {Lit(<<"x">>)}

EnumRoots == {<<>>, <<"a", "b", "c">>}

BaseRoots == EnumRoots \cup {Abcdef, HelloWorld}

BasePieceLists(source) ==
  IF source \in EnumRoots THEN SeqsUpTo(PiecesOver(Len(source)), MaxPieces)
  ELSE IF source = Abcdef THEN {AbcdefPieces}
  ELSE {HelloPieces}

ChainRoots == {<<>>, <<"\n", "a">>}

(***************************************************************************)
(* The cost of a run of the model: one for each call that built a member  *)
(* of the pool, and one for each piece or string handed to it.             *)
(***************************************************************************)
OwnCost(ms) ==
  CASE ms.kind = "base" -> 1 + Len(ms.offsetInfo)
    [] ms.kind = "compose" -> 1 + Len(ms.next.offsetInfo)
    [] ms.kind = "id" -> 1
    [] ms.kind = "concat" -> 1 + Len(ms.strings)

RECURSIVE Used(_)
Used(list) == IF list = <<>> THEN 0 ELSE OwnCost(Head(list)) + Used(Tail(list))

Budget(cap, total) == Min2(cap, total - Used(pool) - 1)

ChainPieceLists(value, total) ==
  SeqsUpTo(ChainPiecesOver(Len(value)), Budget(MaxChainPieces, total))

Alphabet == {"a", "\r", "\n"}

Texts == SeqsUpTo(Alphabet, MaxTextLen)

NoCall == [op |-> "none"]

(***************************************************************************)
(* The offsets a property looks at: those of value, one before and two     *)
(* past its end.                                                           *)
(***************************************************************************)
Offsets(ms) == -1..(Len(ms.value) + 1)

Inside(ms) == 0..(Len(ms.value) - 1)

(***************************************************************************)
(* The watcher as watchProject leaves it: no client, no timer pending, no  *)
(* run of reloadClients started, watchForChanges waiting for an event.     *)
(* A socket is a number, given in the order of acceptance; sent[s] counts  *)
(* the calls of socket.send on s.                                          *)
(***************************************************************************)
Sockets == 1..MaxSockets

RunIds == 1..MaxRuns

NoRun == [pc |-> "none", i |-> 0, socket |-> 0]

RunEnded(pc) == [pc |-> pc, i |-> 0, socket |-> 0]

watchProject ==
  /\ clients = <<>>
  /\ timer = FALSE
  /\ runs = [r \in RunIds |-> NoRun]
  /\ watcher = [pc |-> "next", run |-> 0]
  /\ sent = [s \in Sockets |-> 0]
  /\ closed = {}
  /\ accepted = 0

(***************************************************************************)
(* Operations.  pool holds the MappedStrings built so far, all over root;  *)
(* last records the latest call with its arguments and its result.         *)
(***************************************************************************)
CallMappedStringOfText(pieces) ==
  /\ LET ms == mappedStringBase(root, pieces)
     IN  /\ pool' = Append(pool, ms)
         /\ last' = [op |-> "mappedString", raw |-> TRUE, source |-> root,
                     pieces |-> pieces, result |-> ms]
  /\ UNCHANGED <<root, watchVars>>

CallMappedStringOfMapped(i, pieces) ==
  /\ LET ms == mappedStringRec(pool[i], pieces)
     IN  /\ pool' = Append(pool, ms)
         /\ last' = [op |-> "mappedString", raw |-> FALSE, source |-> pool[i],
                     pieces |-> pieces, result |-> ms]
  /\ UNCHANGED <<root, watchVars>>

CallAsMappedString ==
  /\ LET ms == asMappedString(root)
     IN  /\ pool' = Append(pool, ms)
         /\ last' = [op |-> "asMappedString", str |-> root, result |-> ms]
  /\ UNCHANGED <<root, watchVars>>

CallMappedConcat(ixs) ==
  /\ LET strings == [k \in 1..Len(ixs) |-> pool[ixs[k]]]
         r == mappedConcat(strings)
     IN  /\ pool' = IF r.kind = "Error" THEN pool ELSE Append(pool, r)
         /\ last' = [op |-> "mappedConcat", strings |-> strings, result |-> r]
  /\ UNCHANGED <<root, watchVars>>

CallMappedLineNumbers(offset) ==
  /\ Len(pool) > 0
  /\ last' = [op |-> "mappedLineNumbers", text |-> pool[Len(pool)],
              offset |-> offset,
              result |-> mappedLineNumbers(pool[Len(pool)], offset)]
  /\ UNCHANGED <<root, pool, watchVars>>

CallLineNumbers(offset) ==
  /\ last' = [op |-> "lineNumbers", text |-> root, offset |-> offset,
              result |-> lineNumbers(root, offset)]
  /\ UNCHANGED <<root, pool, watchVars>>

(***************************************************************************)
(* Spec: chains of constructions over one root, of a cost of at most       *)
(* MaxCost.                                                                *)
(***************************************************************************)
Init ==
  /\ root \in ChainRoots
  /\ pool = <<>>
  /\ last = NoCall
  /\ watchProject

Next ==
  \/ Used(pool) < MaxCost /\ CallAsMappedString
  \/ /\ Used(pool) < MaxCost
     /\ \E pieces \in ChainPieceLists(root, MaxCost) :
          CallMappedStringOfText(pieces)
  \/ /\ Used(pool) < MaxCost
     /\ \E i \in 1..Len(pool) :
          \E pieces \in ChainPieceLists(pool[i].value, MaxCost) :
            CallMappedStringOfMapped(i, pieces)
  \/ /\ Used(pool) < MaxCost
     /\ \E ixs \in SeqsUpTo(1..Len(pool), Budget(MaxConcat, MaxCost)) :
          CallMappedConcat(ixs)

Spec == Init /\ [][Next]_vars

(***************************************************************************)
(* SpecMapped: chains of a cost of at most MaxQueryCost, and               *)
(* mappedLineNumbers of the MappedString built last, asked for each        *)
(* offset.                                                                 *)
(***************************************************************************)
MappedNext ==
  \/ Used(pool) < MaxQueryCost /\ CallAsMappedString
  \/ /\ Used(pool) < MaxQueryCost
     /\ \E pieces \in ChainPieceLists(root, MaxQueryCost) :
          CallMappedStringOfText(pieces)
  \/ /\ Used(pool) < MaxQueryCost
     /\ \E i \in 1..Len(pool) :
          \E pieces \in ChainPieceLists(pool[i].value, MaxQueryCost) :
            CallMappedStringOfMapped(i, pieces)
  \/ /\ Used(pool) < MaxQueryCost
     /\ \E ixs \in SeqsUpTo(1..Len(pool), Budget(MaxConcat, MaxQueryCost)) :
          CallMappedConcat(ixs)
  \/ /\ pool # <<>>
     /\ \E offset \in Offsets(pool[Len(pool)]) : CallMappedLineNumbers(offset)

SpecMapped == Init /\ [][MappedNext]_vars

(***************************************************************************)
(* SpecBase: one mappedString over a raw text, with every piece list.      *)
(***************************************************************************)
BaseInit ==
  /\ root \in BaseRoots
  /\ pool = <<>>
  /\ last = NoCall
  /\ watchProject

BaseNext ==
  /\ pool = <<>>
  /\ \E pieces \in BasePieceLists(root) : CallMappedStringOfText(pieces)

SpecBase == BaseInit /\ [][BaseNext]_vars

(***************************************************************************)
(* SpecLines: lineNumbers over every short text.                           *)
(***************************************************************************)
LinesInit ==
  /\ root \in Texts
  /\ pool = <<>>
  /\ last = NoCall
  /\ watchProject

LinesNext == \E offset \in 0..Len(root) : CallLineNumbers(offset)

SpecLines == LinesInit /\ [][LinesNext]_vars

(***************************************************************************)
(* The watcher.  Array.prototype.splice, with a start inside or at the end *)
(* of the array or beyond it (where it removes nothing).                   *)
(***************************************************************************)
splice(list, start, deleteCount) ==
  SubSeq(list, 1, Min2(start, Len(list)))
    \o SubSeq(list, Min2(start + deleteCount, Len(list)) + 1, Len(list))

(***************************************************************************)
(* reloadClients from the head of its loop at index i to its next await:   *)
(* the loop is over when i < 0; otherwise the run reads clients[i] and     *)
(* calls socket.send, at which it is suspended.  When clients[i] is        *)
(* undefined the call throws inside try, and the read of socket.isClosed   *)
(* in finally throws again, which ends the run with a rejected promise.    *)
(***************************************************************************)
reloadClients(i, list) ==
  IF i < 0 THEN [run |-> RunEnded("done"), send |-> 0]
  ELSE IF i >= Len(list) THEN [run |-> RunEnded("thrown"), send |-> 0]
  ELSE [run |-> [pc |-> "await", i |-> i, socket |-> list[i + 1]],
        send |-> list[i + 1]]

Send(socket) ==
  IF socket = 0 THEN sent ELSE [sent EXCEPT ![socket] = @ + 1]

started == Cardinality({r \in RunIds : runs[r].pc # "none"})

(***************************************************************************)
(* watchForChanges awaits what the debounced function returns, which is    *)
(* the result of the latest invocation of reloadClients: undefined before  *)
(* the first one, its promise afterwards.  A rejected promise ends the     *)
(* loop, since watchForChanges is not called again.                        *)
(***************************************************************************)
Awaiting(r) ==
  IF r = 0 \/ runs[r].pc = "done" THEN [pc |-> "next", run |-> 0]
  ELSE IF runs[r].pc = "thrown" THEN [pc |-> "stopped", run |-> 0]
  ELSE [pc |-> "await", run |-> r]

Settled(r, run) ==
  IF watcher.pc = "await" /\ watcher.run = r
  THEN IF run.pc = "done" THEN [pc |-> "next", run |-> 0]
       ELSE IF run.pc = "thrown" THEN [pc |-> "stopped", run |-> 0]
       ELSE watcher
  ELSE watcher

(***************************************************************************)
(* connect: acceptWebSocket resolves with a new socket, which is pushed,   *)
(* or rejects, which is reported.                                          *)
(***************************************************************************)
Connect(ok) ==
  /\ accepted < MaxSockets
  /\ IF ok
     THEN /\ accepted' = accepted + 1
          /\ clients' = Append(clients, accepted + 1)
     ELSE UNCHANGED <<accepted, clients>>
  /\ UNCHANGED <<root, pool, last, timer, runs, watcher, sent, closed>>

(***************************************************************************)
(* watchForChanges: an event arrives; when handleWatchEvent asks for a     *)
(* reload the debounced function is called, which restarts its timer, and  *)
(* its result is awaited.                                                  *)
(***************************************************************************)
WatchEvent(reload) ==
  /\ watcher.pc = "next"
  /\ IF reload
     THEN /\ timer' = TRUE
          /\ watcher' = Awaiting(started)
     ELSE UNCHANGED <<timer, watcher>>
  /\ UNCHANGED <<root, pool, last, clients, runs, sent, closed, accepted>>

(***************************************************************************)
(* The timer of the debounce expires: reloadClients is invoked and runs to *)
(* its first await.                                                        *)
(***************************************************************************)
TimerFires ==
  /\ timer
  /\ started < MaxRuns
  /\ timer' = FALSE
  /\ LET head == reloadClients(Len(clients) - 1, clients)
     IN  /\ runs' = [runs EXCEPT ![started + 1] = head.run]
         /\ sent' = Send(head.send)
  /\ UNCHANGED <<root, pool, last, clients, watcher, closed, accepted>>

(***************************************************************************)
(* The send a run awaits settles (resolved or rejected): finally closes    *)
(* the socket, removes index i of clients, and the loop goes on with       *)
(* i - 1 to its next await or to its end.                                  *)
(***************************************************************************)
SendSettles(r) ==
  /\ runs[r].pc = "await"
  /\ LET list == splice(clients, runs[r].i, 1)
         head == reloadClients(runs[r].i - 1, list)
     IN  /\ clients' = list
         /\ closed' = closed \cup {runs[r].socket}
         /\ runs' = [runs EXCEPT ![r] = head.run]
         /\ sent' = Send(head.send)
         /\ watcher' = Settled(r, head.run)
  /\ UNCHANGED <<root, pool, last, timer, accepted>>

(***************************************************************************)
(* SpecWatch: every interleaving of connects, watch events, expiries of    *)
(* the timer and settled sends, for at most MaxSockets sockets and MaxRuns *)
(* runs of reloadClients.                                                  *)
(***************************************************************************)
WatchInit ==
  /\ root = <<>>
  /\ pool = <<>>
  /\ last = NoCall
  /\ watchProject

WatchNext ==
  \/ \E ok \in BOOLEAN : Connect(ok)
  \/ \E reload \in BOOLEAN : WatchEvent(reload)
  \/ TimerFires
  \/ \E r \in RunIds : SendSettles(r)

SpecWatch == WatchInit /\ [][WatchNext]_vars

(***************************************************************************)
(* What the claims speak of, stated on the pieces themselves (ranges with  *)
(* 0 <= start <= end <= length of the source).                             *)
(***************************************************************************)
PieceText(source, piece) ==
  IF piece.kind = "string" THEN piece.text
  ELSE SubSeq(source, piece.start + 1, piece.end)

PieceLen(piece) ==
  IF piece.kind = "string" THEN Len(piece.text) ELSE piece.end - piece.start

RECURSIVE PieceStart(_, _)
PieceStart(pieces, k) ==
  IF k = 1 THEN 0 ELSE PieceStart(pieces, k - 1) + PieceLen(pieces[k - 1])

Covers(pieces, k, o) ==
  /\ PieceStart(pieces, k) <= o
  /\ o < PieceStart(pieces, k) + PieceLen(pieces[k])

Covering(pieces, o) == {k \in 1..Len(pieces) : Covers(pieces, k, o)}

ForwardOf(pieces, o) ==
  IF Covering(pieces, o) = {} THEN Undefined
  ELSE LET k == CHOOSE c \in Covering(pieces, o) : TRUE
       IN  IF pieces[k].kind = "string" THEN Undefined
           ELSE Num(pieces[k].start + (o - PieceStart(pieces, k)))

SourcePiecesUpTo(pieces, k) == {j \in 1..k : pieces[j].kind = "range"}

ClosestOf(pieces, o) ==
  LET k == CHOOSE c \in Covering(pieces, o) : TRUE
  IN  IF pieces[k].kind = "range" THEN ForwardOf(pieces, o)
      ELSE IF SourcePiecesUpTo(pieces, k) = {} THEN Undefined
      ELSE Num(pieces[SetMax(SourcePiecesUpTo(pieces, k))].end - 1)

IsBaseCall == last.op = "mappedString" /\ last.raw

IsComposeCall == last.op = "mappedString" /\ ~last.raw

\* C1: mappedString over a raw text gives the concatenation of the resolved
\* pieces as value; map(o) is unmapped in a literal piece and outside
\* [0, len(value)), and is range.start + (o - start of the piece) in a range
\* piece; "abcdef" with [range(2,5), "-X-", range(0,2)] gives "cde-X-ab" and
\* map(0..7) = 2,3,4,unmapped,unmapped,unmapped,0,1.
C1_BaseForwardMap ==
  IsBaseCall =>
    LET ms == last.result
        pieces == last.pieces
    IN  /\ ms.value =
             join([k \in 1..Len(pieces) |-> PieceText(last.source, pieces[k])])
        /\ \A o \in Offsets(ms) : map(ms, o) = ForwardOf(pieces, o)
        /\ (last.source = Abcdef /\ pieces = AbcdefPieces) =>
             /\ ms.value = <<"c", "d", "e", "-", "X", "-", "a", "b">>
             /\ [o \in 0..7 |-> map(ms, o)] =
                  [o \in 0..7 |->
                     <<Num(2), Num(3), Num(4), Undefined, Undefined,
                       Undefined, Num(0), Num(1)>>[o + 1]]

C1_Witness ==
  /\ IsBaseCall
  /\ last.source = Abcdef
  /\ last.pieces = AbcdefPieces
  /\ map(last.result, 6) = Num(0)
  /\ map(last.result, 3) = Undefined

\* C4: mapClosest of mappedString over a raw text, at an offset of value: the
\* exact forward offset when the covering segment is from the source;
\* otherwise range.end - 1 of the nearest segment from the source before it,
\* and unmapped exactly when there is none.  Over "hello world" with
\* ["prefix-literal", range(0,5), "suffix-literal"] it is unmapped inside the
\* prefix and 4 inside the suffix.
C4_BaseClosest ==
  IsBaseCall =>
    LET ms == last.result
        pieces == last.pieces
    IN  /\ \A o \in Inside(ms) : mapClosest(ms, o) = ClosestOf(pieces, o)
        /\ (last.source = HelloWorld /\ pieces = HelloPieces) =>
             /\ \A o \in 0..13 : mapClosest(ms, o) = Undefined
             /\ \A o \in 19..32 : mapClosest(ms, o) = Num(4)

C4_Witness ==
  /\ IsBaseCall
  /\ last.source = HelloWorld
  /\ last.pieces = HelloPieces
  /\ Len(last.result.value) = 33
  /\ mapClosest(last.result, 19) = Num(4)
  /\ mapClosest(last.result, 13) = Undefined

(***************************************************************************)
(* The two stages of a composition, applied one after the other.           *)
(***************************************************************************)
ThenMap(M, I, o) ==
  IF map(I, o) = Undefined THEN Undefined ELSE map(M, map(I, o).n)

ThenMapClosest(M, I, o) ==
  IF mapClosest(I, o) = Undefined THEN Undefined
  ELSE mapClosest(M, mapClosest(I, o).n)

\* C2: N = mappedString(M, pieces) has the root text as originalString (that
\* of M, never M.value), the value of I = mappedString(M.value, pieces), and
\* at every offset N.map = M.map after I.map and N.mapClosest = M.mapClosest
\* after I.mapClosest, unmapped as soon as a stage is unmapped.
C2_Composition ==
  IsComposeCall =>
    LET M == last.source
        N == last.result
        I == mappedStringBase(M.value, last.pieces)
    IN  /\ N.originalString = M.originalString
        /\ N.originalString = root
        /\ N.value = I.value
        /\ \A o \in Offsets(N) :
             /\ map(N, o) = ThenMap(M, I, o)
             /\ mapClosest(N, o) = ThenMapClosest(M, I, o)

C2_Witness ==
  /\ IsComposeCall
  /\ last.source.kind = "compose"
  /\ last.source.value # root
  /\ \E o \in Inside(last.result) :
       /\ IsNum(map(last.result, o))
       /\ map(last.result, o) # Num(o)

\* C5: for every MappedString built (asMappedString, mappedString over a text
\* or over a MappedString, mappedConcat) and every offset, mapClosest returns
\* what map returns whenever map returns an offset.
C5_ClosestExtendsMap ==
  \A i \in 1..Len(pool) :
    \A o \in Offsets(pool[i]) :
      IsNum(map(pool[i], o)) => mapClosest(pool[i], o) = map(pool[i], o)

C5_Witness ==
  /\ \E i \in 1..Len(pool) :
       /\ pool[i].kind = "concat"
       /\ \E o \in Inside(pool[i]) : IsNum(map(pool[i], o))
       /\ \E o \in Inside(pool[i]) :
            map(pool[i], o) = Undefined /\ IsNum(mapClosest(pool[i], o))
  /\ \E i \in 1..Len(pool) :
       /\ pool[i].kind = "compose"
       /\ \E o \in Inside(pool[i]) : IsNum(map(pool[i], o))

(***************************************************************************)
(* A MappedString built of literal pieces only.                            *)
(***************************************************************************)
OnlyLiterals(ms) ==
  \/ ms.kind = "base" /\ \A i \in 1..Len(ms.offsetInfo) :
                           ~ms.offsetInfo[i].fromSource
  \/ ms.kind = "compose" /\ \A i \in 1..Len(ms.next.offsetInfo) :
                              ~ms.next.offsetInfo[i].fromSource

InternalError == Thrown("Internal Error: bad offset in mappedLineNumbers")

\* C7: the function of mappedLineNumbers(text) raises the internal error
\* when text.mapClosest(offset) is unmapped, and otherwise returns the line
\* and column that lineNumbers(text.originalString) gives for
\* text.mapClosest(offset) (a mapClosest that throws makes the call throw the
\* same); over a MappedString of literal pieces only, every offset raises the
\* error.
C7_MappedLineNumbers ==
  last.op = "mappedLineNumbers" =>
    LET n == mapClosest(last.text, last.offset)
    IN  /\ n = Undefined => last.result = InternalError
        /\ IsNum(n) =>
             last.result = lineNumbers(last.text.originalString, n.n)
        /\ n = TypeError => last.result = Thrown("TypeError")
        /\ OnlyLiterals(last.text) => last.result = InternalError

C7_Witness ==
  /\ last.op = "mappedLineNumbers"
  /\ last.text.kind = "compose"
  /\ map(last.text, last.offset) = Undefined
  /\ mapClosest(last.text, last.offset) = Num(1)
  /\ last.result = [line |-> 1, column |-> Num(0)]

C7_WitnessLiterals ==
  /\ last.op = "mappedLineNumbers"
  /\ OnlyLiterals(last.text)
  /\ Len(last.text.value) > 0
  /\ last.offset \in Inside(last.text)
  /\ last.result = InternalError

\* C10: mappedConcat of an empty list raises an error and returns no
\* MappedString; of a non-empty list it returns a MappedString whose
\* originalString is that of the first element.
C10_ConcatEmpty ==
  last.op = "mappedConcat" =>
    /\ last.strings = <<>> =>
         last.result = Thrown("strings must be non-empty")
    /\ last.strings # <<>> =>
         /\ last.result.kind = "concat"
         /\ last.result.originalString = last.strings[1].originalString
         /\ last.result = pool[Len(pool)]

C10_Witness ==
  /\ last.op = "mappedConcat"
  /\ last.strings = <<>>
  /\ last.result = Thrown("strings must be non-empty")
  /\ pool # <<>>

C10_WitnessNonEmpty ==
  /\ last.op = "mappedConcat"
  /\ Len(last.strings) = 2
  /\ last.result.originalString = root

(***************************************************************************)
(* The offset at which element k of a concatenated list starts in value.   *)
(***************************************************************************)
RECURSIVE ElementStart(_, _)
ElementStart(strings, k) ==
  IF k = 1 THEN 0
  ELSE ElementStart(strings, k - 1) + Len(strings[k - 1].value)

\* C3: C = mappedConcat([S1..Sn]) has the values in order as value, and at
\* every offset j of Sk, C.map(p_k + j) = Sk.map(j) and C.mapClosest(p_k + j)
\* = Sk.mapClosest(j), p_k being the sum of the lengths before Sk.
C3_ConcatTranslation ==
  (last.op = "mappedConcat" /\ last.strings # <<>>) =>
    LET C == last.result
        S == last.strings
    IN  /\ C.value = join([k \in 1..Len(S) |-> S[k].value])
        /\ \A k \in 1..Len(S) :
             \A j \in Inside(S[k]) :
               /\ map(C, ElementStart(S, k) + j) = map(S[k], j)
               /\ mapClosest(C, ElementStart(S, k) + j) = mapClosest(S[k], j)

\* C6: for every MappedString built by a chain of mappedString and
\* mappedConcat steps and every offset o of its value, map(o) is unmapped or
\* the character of originalString at map(o) is the character of value at o.
C6_CharacterPreserved ==
  \A i \in 1..Len(pool) :
    \A o \in Inside(pool[i]) :
      \/ map(pool[i], o) = Undefined
      \/ /\ IsNum(map(pool[i], o))
         /\ map(pool[i], o).n \in 0..(Len(pool[i].originalString) - 1)
         /\ pool[i].originalString[map(pool[i], o).n + 1] = pool[i].value[o + 1]

IsCopyCall ==
  /\ last.op = "mappedString"
  /\ last.pieces =
       <<Range(0, Len(IF last.raw THEN last.source ELSE last.source.value))>>

\* C9 as stated: mappedString(S, [range(0, len)]), S a text or a
\* MappedString, has S's value and map(o) = o at every offset of value.
C9_CopyIsIdentity ==
  IsCopyCall =>
    /\ last.result.value = (IF last.raw THEN last.source ELSE last.source.value)
    /\ \A o \in Inside(last.result) : map(last.result, o) = Num(o)

\* C9 as amended: the copy has S's value; map(o) = o when S is a text, and
\* map(o) = S.map(o) when S is a MappedString.
C9_CopyKeepsMap ==
  IsCopyCall =>
    /\ last.result.value = (IF last.raw THEN last.source ELSE last.source.value)
    /\ \A o \in Inside(last.result) :
         map(last.result, o) =
           (IF last.raw THEN Num(o) ELSE map(last.source, o))

C9_Witness ==
  /\ IsCopyCall
  /\ ~last.raw
  /\ \E o \in Inside(last.result) :
       /\ IsNum(map(last.result, o))
       /\ map(last.result, o) # Num(o)

(***************************************************************************)
(* The line terminators of text that end at or before offset o: the        *)
(* offsets that follow a "\n".                                             *)
(***************************************************************************)
TerminatorEnds(text, o) == {e \in 1..Len(text) : text[e] = "\n" /\ e <= o}

\* C8: for every offset o in [0, len(text)], lineNumbers(text)(o) is the
\* number of line terminators ending at or before o, with o minus the start
\* of that line as column.
C8_LineIndex ==
  last.op = "lineNumbers" =>
    last.result =
      [line |-> Cardinality(TerminatorEnds(last.text, last.offset)),
       column |-> Num(last.offset
                      - SetMax({0} \cup TerminatorEnds(last.text, last.offset)))]

(***************************************************************************)
(* The offsets below o at which map gives an offset of the source.         *)
(***************************************************************************)
MappedBelow(ms, o) == {p \in 0..(o - 1) : IsNum(map(ms, p))}

\* C11: for mappedString over a raw text, at every offset o of value at which
\* map(o) is unmapped, mapClosest(o) is map(o*) for the largest offset o*
\* below o at which map is defined, and is unmapped exactly when there is no
\* such o*.
C11_ClosestSmallerValid ==
  IsBaseCall =>
    LET ms == last.result
    IN  \A o \in Inside(ms) :
          map(ms, o) = Undefined =>
            mapClosest(ms, o) =
              IF MappedBelow(ms, o) = {} THEN Undefined
              ELSE map(ms, SetMax(MappedBelow(ms, o)))

(***************************************************************************)
(* A MappedString built by mappedString steps only, over a raw text.       *)
(***************************************************************************)
RECURSIVE BuiltByMappedString(_)
BuiltByMappedString(ms) ==
  \/ ms.kind = "base"
  \/ ms.kind = "compose" /\ BuiltByMappedString(ms.previous)

InsideOriginal(ms, r) ==
  IsNum(r) => 0 <= r.n /\ r.n < Len(ms.originalString)

\* C12: for a MappedString built by mappedString over a raw text and by
\* further mappedString steps over it, every offset that map(o) or
\* mapClosest(o) returns for o >= 0 is a position of originalString
\* (0 <= r < len(originalString)), and a mappedLineNumbers call that returns
\* has a line that is not negative and a column that is a number.
C12_InsideOriginal ==
  /\ (last.op = "mappedString" /\ BuiltByMappedString(last.result)) =>
       \A o \in 0..(Len(last.result.value) + 1) :
         /\ InsideOriginal(last.result, map(last.result, o))
         /\ InsideOriginal(last.result, mapClosest(last.result, o))
  /\ ( /\ last.op = "mappedLineNumbers"
       /\ BuiltByMappedString(last.text)
       /\ last.offset >= 0
       /\ last.result # InternalError ) =>
       /\ last.result.line >= 0
       /\ IsNum(last.result.column)

(***************************************************************************)
(* The sockets no longer in clients.                                       *)
(***************************************************************************)
Removed == {s \in 1..accepted : \A k \in 1..Len(clients) : clients[k] # s}

\* C13: under every interleaving of connects, watch events and runs of
\* reloadClients, a socket is out of the clients list only after a reload
\* message was sent on that socket, and no socket is sent more than one
\* reload message.
C13_ClientTracking ==
  /\ \A s \in Removed : sent[s] >= 1
  /\ \A s \in 1..accepted : sent[s] <= 1

====
